---------------------------- MODULE Spec2Model ----------------------------
(***************************************************************************)
(* ManningApp 1.0 (src/ManningApp_v1.0_Code/src/main.rs): the roster       *)
(* viewer's state (ManningApp), its Excel loader (load_excel: the date-    *)
(* cell scan and the staff-name extraction) and the text helper            *)
(* to_hankaku.                                                             *)
(*                                                                         *)
(* Text is a sequence of Unicode scalar values (Rust chars), so that the   *)
(* arithmetic of to_hankaku, trim, parse, split and contains is the one    *)
(* the code performs.  A 64-bit integer is four 16-bit limbs, most         *)
(* significant first, in two's complement; an u32 is two limbs.  Option    *)
(* values are sequences: <<>> is None and <<x>> is Some(x).                *)
(***************************************************************************)
EXTENDS Integers, Sequences, FiniteSets

VARIABLES
    today,            \* ManningApp.today: [month, day] of the NaiveDate
    staff_names,      \* ManningApp.staff_names: four strings
    schedule_text,    \* ManningApp.schedule_text
    status_message,   \* ManningApp.status_message
    last,             \* the most recent load_excel call: None or Some(record)
    hk_in,            \* argument of the to_hankaku call under test
    hk_out            \* None, or Some(result of to_hankaku(hk_in))

vars == <<today, staff_names, schedule_text, status_message, last, hk_in, hk_out>>

None == <<>>
Some(x) == <<x>>

-----------------------------------------------------------------------------
(* Characters the code names, as Unicode scalar values.                    *)
CH_FW_0 == 65296
CH_FW_9 == 65305
CH_0 == 48
CH_FW_UA == 65313
CH_FW_UZ == 65338
CH_UA == 65
CH_FW_LA == 65345
CH_FW_LZ == 65370
CH_LA == 97
CH_FW_SPACE == 12288
CH_SPACE == 32
CH_SLASH == 47
CH_GATSU == 26376
CH_NICHI == 26085
CH_HAYA == 26089
CH_OSO == 36933
CH_YORU == 22812
CH_TOUTEN == 12289

(* Characters that only occur in the sample inputs.                        *)
Str_Tanaka == <<84, 97, 110, 97, 107, 97>>
Str_Sato == <<83, 97, 116, 111>>
Str_Ito == <<73, 116, 111>>
Str_Mori == <<77, 111, 114, 105>>
Str_Yamada == <<89, 97, 109, 97, 100, 97>>
Str_Name == <<78, 97, 109, 101>>
Str_Date == <<68, 97, 116, 101>>
Str_Note == <<109, 101, 109, 111>>
Str_Weekday == <<26408>>
Mark_Early == <<CH_HAYA, 30058>>
Mark_Day == <<CH_NICHI, 21220>>
Mark_Late == <<CH_OSO, 30058>>
Mark_Night == <<CH_YORU, 21220>>
Mark_Off == <<20241>>

-----------------------------------------------------------------------------
(* to_hankaku                                                              *)

\* HankakuChar with the three ranges written without their last character.
HankakuChar_ExclusiveEnd(c) ==
    IF c >= CH_FW_0 /\ c < CH_FW_9 THEN c - CH_FW_0 + CH_0
    ELSE IF c >= CH_FW_UA /\ c < CH_FW_UZ THEN c - CH_FW_UA + CH_UA
    ELSE IF c >= CH_FW_LA /\ c < CH_FW_LZ THEN c - CH_FW_LA + CH_LA
    ELSE IF c = CH_FW_SPACE THEN CH_SPACE
    ELSE c

\* The closure of the map: one character.
HankakuChar(c) ==
    IF c >= CH_FW_0 /\ c <= CH_FW_9 THEN c - CH_FW_0 + CH_0
    ELSE IF c >= CH_FW_UA /\ c <= CH_FW_UZ THEN c - CH_FW_UA + CH_UA
    ELSE IF c >= CH_FW_LA /\ c <= CH_FW_LZ THEN c - CH_FW_LA + CH_LA
    ELSE IF c = CH_FW_SPACE THEN CH_SPACE
    ELSE c

\* s.chars().map(..).collect()
to_hankaku(s) == [i \in 1..Len(s) |-> HankakuChar(s[i])]

-----------------------------------------------------------------------------
(* The str methods load_excel calls: trim, is_empty, split, contains,      *)
(* parse::<u32>, and the decimal rendering of format!("{}", n).            *)

\* char::is_whitespace (the Unicode White_Space property), which str::trim uses.
IsWhitespace(c) ==
    \/ c >= 9 /\ c <= 13
    \/ c \in {CH_SPACE, 133, 160, 5760, 8232, 8233, 8239, 8287, CH_FW_SPACE}
    \/ c >= 8192 /\ c <= 8202

\* str::trim: the text from its first to its last non-whitespace character.
Trim(s) ==
    LET kept == {i \in 1..Len(s) : ~IsWhitespace(s[i])}
    IN  IF kept = {} THEN <<>>
        ELSE LET first == CHOOSE i \in kept : \A j \in kept : i <= j
                 final == CHOOSE i \in kept : \A j \in kept : i >= j
             IN  SubSeq(s, first, final)

\* str::contains(&str)
Contains(s, pat) ==
    \E i \in 1..(Len(s) + 1) :
        /\ i + Len(pat) - 1 <= Len(s)
        /\ SubSeq(s, i, i + Len(pat) - 1) = pat

\* str::split(char).collect(): the pieces between the separators, in order.
RECURSIVE SplitFrom(_, _, _)
SplitFrom(s, sep, cur) ==
    IF s = <<>> THEN <<cur>>
    ELSE IF Head(s) = sep THEN <<cur>> \o SplitFrom(Tail(s), sep, <<>>)
    ELSE SplitFrom(Tail(s), sep, Append(cur, Head(s)))

Split(s, sep) == SplitFrom(s, sep, <<>>)

\* format!("{}", n) of an unsigned number that fits the checker's integers
\* (a month, a day, a one-based row or column).
RECURSIVE DecDigits(_)
DecDigits(n) ==
    IF n < 10 THEN <<CH_0 + n>>
    ELSE DecDigits(n \div 10) \o <<CH_0 + (n % 10)>>

Limb == 2^16

IsDigit(c) == c >= CH_0 /\ c <= CH_0 + 9

\* One step of the decimal accumulation acc * 10 + d over limbs (most
\* significant first): <<limbs, carry out of the top limb>>.
RECURSIVE MulAdd10(_, _)
MulAdd10(limbs, d) ==
    IF limbs = <<>> THEN <<(<<>>), d>>
    ELSE LET low == MulAdd10(Tail(limbs), d)
             cur == Head(limbs) * 10 + low[2]
         IN  <<(<<cur % Limb>>) \o low[1], cur \div Limb>>

\* The value of a digit string in `n` limbs: None on a non-digit or on
\* overflow of the n limbs.
RECURSIVE ParseDigits(_, _)
ParseDigits(s, acc) ==
    IF s = <<>> THEN Some(acc)
    ELSE IF ~IsDigit(Head(s)) THEN None
    ELSE LET step == MulAdd10(acc, Head(s) - CH_0)
         IN  IF step[2] # 0 THEN None ELSE ParseDigits(Tail(s), step[1])

\* str::parse::<u32>: an optional '+' (43), then at least one ASCII digit, no
\* other character, value at most 2^32 - 1.  Some(<<high limb, low limb>>).
ParseU32(s) ==
    LET body == IF s # <<>> /\ Head(s) = 43 THEN Tail(s) ELSE s
    IN  IF body = <<>> THEN None ELSE ParseDigits(body, <<0, 0>>)

\* A u32 the checker's integers hold (chrono's month() and day()), as limbs.
U32(n) == <<0, n>>

\* Two's complement negation over limbs.
RECURSIVE NegLimbs(_)
NegLimbs(limbs) ==
    IF limbs = <<>> THEN <<(<<>>), 1>>
    ELSE LET low == NegLimbs(Tail(limbs))
             cur == (Limb - 1 - Head(limbs)) + low[2]
         IN  <<(<<cur % Limb>>) \o low[1], cur \div Limb>>

Negate(limbs) == NegLimbs(limbs)[1]

IsNegative(limbs) == limbs[1] >= Limb \div 2

\* str::parse::<i64>: an optional sign ('+' 43, '-' 45), digits, value in -2^63 .. 2^63 - 1.
ParseI64(s) ==
    LET neg == s # <<>> /\ Head(s) = 45
        body == IF s # <<>> /\ Head(s) \in {43, 45} THEN Tail(s) ELSE s
        mag == IF body = <<>> THEN None ELSE ParseDigits(body, <<0, 0, 0, 0>>)
    IN  IF mag = None THEN None
        ELSE IF neg
             THEN IF IsNegative(mag[1]) /\ mag[1] # <<Limb \div 2, 0, 0, 0>>
                  THEN None ELSE Some(Negate(mag[1]))
             ELSE IF IsNegative(mag[1]) THEN None ELSE mag
    
\* One step of the long division of limbs by ten: <<quotient, remainder>>.
RECURSIVE DivMod10(_, _)
DivMod10(limbs, rem) ==
    IF limbs = <<>> THEN <<(<<>>), rem>>
    ELSE LET cur == rem * Limb + Head(limbs)
             rest == DivMod10(Tail(limbs), cur % 10)
         IN  <<(<<cur \div 10>>) \o rest[1], rest[2]>>

IsZero(limbs) == \A k \in 1..Len(limbs) : limbs[k] = 0

RECURSIVE DecUnsigned(_)
DecUnsigned(limbs) ==
    IF IsZero(limbs) THEN <<>>
    ELSE LET qr == DivMod10(limbs, 0)
         IN  DecUnsigned(qr[1]) \o <<CH_0 + qr[2]>>

\* format!("{}", v) of an i64.
DecI64(limbs) ==
    IF IsZero(limbs) THEN <<CH_0>>
    ELSE IF IsNegative(limbs) THEN <<45>> \o DecUnsigned(Negate(limbs))
    ELSE DecUnsigned(limbs)

\* `v as u32` of an i64: the low 32 bits.
AsU32(limbs) == <<limbs[3], limbs[4]>>

-----------------------------------------------------------------------------
(* Cells.  A cell is what calamine hands load_excel: Empty, Int(i64),      *)
(* DateTime (a date-formatted number, kept as its serial and the calendar  *)
(* month and day the library converts it to) or String.  load_excel reads  *)
(* a cell only through as_date(), as_i64() and Display.                    *)

EmptyCell == [kind |-> "Empty", v |-> <<>>, serial |-> 0, date |-> <<>>, s |-> <<>>]
IntCell(v) == [kind |-> "Int", v |-> v, serial |-> 0, date |-> <<>>, s |-> <<>>]
DateTimeCell(serial, month, day) ==
    [kind |-> "DateTime", v |-> <<>>, serial |-> serial,
     date |-> [month |-> month, day |-> day], s |-> <<>>]
StringCell(s) == [kind |-> "String", v |-> <<>>, serial |-> 0, date |-> <<>>, s |-> s]

\* An i64 the checker's integers hold, as limbs.
I64(n) == <<0, 0, 0, n>>

\* The library's reading of an integer as a date serial (days after
\* 1899-12-30), for the serials 1..60 the sample cells use; an integer whose
\* date is outside chrono's range converts to None.
SerialDate(v) ==
    IF v[1] = 0 /\ v[2] = 0 /\ v[3] = 0 /\ v[4] >= 1 /\ v[4] <= 60
    THEN LET n == v[4]
         IN  Some(IF n = 1 THEN [month |-> 12, day |-> 31]
                  ELSE IF n <= 32 THEN [month |-> 1, day |-> n - 1]
                  ELSE [month |-> 2, day |-> n - 32])
    ELSE None

\* cell.as_date()
as_date(cell) ==
    CASE cell.kind = "DateTime" -> Some(cell.date)
      [] cell.kind = "Int" -> SerialDate(cell.v)
      [] OTHER -> None

\* cell.as_i64()
as_i64(cell) ==
    CASE cell.kind = "Int" -> Some(cell.v)
      [] cell.kind = "String" -> ParseI64(cell.s)
      [] OTHER -> None

\* format!("{}", cell)
Display(cell) ==
    CASE cell.kind = "Int" -> DecI64(cell.v)
      [] cell.kind = "String" -> cell.s
      [] cell.kind = "DateTime" -> DecDigits(cell.serial)
      [] OTHER -> <<>>

-----------------------------------------------------------------------------
(* load_excel, step 1: the scan for today's date cell.                     *)

\* 1. the cell as a date
MatchDate(cell, day, month) ==
    LET dt == as_date(cell)
    IN  dt # None /\ dt[1].month = month /\ dt[1].day = day

\* 2. the cell as a number (day of month only)
MatchInt(cell, day) ==
    LET day_i64 == as_i64(cell)
    IN  day_i64 # None /\ AsU32(day_i64[1]) = U32(day)

\* 3. the normalised text as a number
MatchText(cell_str_norm, day) ==
    ParseU32(Trim(cell_str_norm)) = Some(U32(day))

\* the normalised text as yyyy/m/d or m/d
MatchSlash(cell_str_norm, day, month) ==
    LET parts == Split(cell_str_norm, CH_SLASH)
        m_idx == IF Len(parts) = 2 THEN 0 ELSE 1
        d_idx == IF Len(parts) = 2 THEN 1 ELSE 2
    IN  /\ Len(parts) >= 2
        /\ ParseU32(Trim(parts[m_idx + 1])) = Some(U32(month))
        /\ ParseU32(Trim(parts[d_idx + 1])) = Some(U32(day))

\* the normalised text contains "m/d" or "m月d日"
MatchContains(cell_str_norm, day, month) ==
    \/ Contains(cell_str_norm, DecDigits(month) \o <<CH_SLASH>> \o DecDigits(day))
    \/ Contains(cell_str_norm,
                DecDigits(month) \o <<CH_GATSU>> \o DecDigits(day) \o <<CH_NICHI>>)

\* The body of the inner loop: whether the cell sets found_date_pos.
CellMatches(cell, day, month) ==
    LET cell_str_norm == to_hankaku(Display(cell))
    IN  \/ MatchDate(cell, day, month)
        \/ MatchInt(cell, day)
        \/ MatchText(cell_str_norm, day)
        \/ MatchSlash(cell_str_norm, day, month)
        \/ MatchContains(cell_str_norm, day, month)

\* for (col_idx, cell) in row.iter().enumerate(): the first matching column
\* at or after col_idx (zero-based), or None.
RECURSIVE ScanRow(_, _, _, _)
ScanRow(row, col_idx, day, month) ==
    IF col_idx >= Len(row) THEN None
    ELSE IF CellMatches(row[col_idx + 1], day, month) THEN Some(col_idx)
    ELSE ScanRow(row, col_idx + 1, day, month)

\* 'outer: for (row_idx, row) in range.rows().enumerate(): found_date_pos.
RECURSIVE ScanRows(_, _, _, _)
ScanRows(rows, row_idx, day, month) ==
    IF row_idx >= Len(rows) THEN None
    ELSE LET hit == ScanRow(rows[row_idx + 1], 0, day, month)
         IN  IF hit # None THEN Some(<<row_idx, hit[1]>>)
             ELSE ScanRows(rows, row_idx + 1, day, month)

FindDatePos(rows, day, month) == ScanRows(rows, 0, day, month)

-----------------------------------------------------------------------------
(* load_excel, step 2: the rows below the date cell.                       *)

shift_keywords == <<(<<CH_HAYA>>), (<<CH_NICHI>>), (<<CH_OSO>>), (<<CH_YORU>>)>>

EmptyShiftStaff == <<(<<>>), (<<>>), (<<>>), (<<>>)>>

\* FindName without its break: the last non-empty text wins.
RECURSIVE FindName_Rightmost(_, _, _)
FindName_Rightmost(row, col, shift_col_idx) ==
    IF col >= shift_col_idx THEN <<>>
    ELSE LET later == FindName_Rightmost(row, col + 1, shift_col_idx)
         IN  IF later # <<>> THEN later
             ELSE IF col < Len(row) THEN Trim(Display(row[col + 1]))
             ELSE <<>>

\* FindName over 0..=shift_col_idx: the shift-marker column is searched too.
RECURSIVE FindName_Inclusive(_, _, _)
FindName_Inclusive(row, col, shift_col_idx) ==
    IF col > shift_col_idx THEN <<>>
    ELSE IF col < Len(row) /\ Trim(Display(row[col + 1])) # <<>>
         THEN Trim(Display(row[col + 1]))
    ELSE FindName_Inclusive(row, col + 1, shift_col_idx)

\* for col in 0..shift_col_idx: the first non-empty trimmed text, or "".
RECURSIVE FindName(_, _, _)
FindName(row, col, shift_col_idx) ==
    IF col >= shift_col_idx THEN <<>>
    ELSE IF col < Len(row) /\ Trim(Display(row[col + 1])) # <<>>
         THEN Trim(Display(row[col + 1]))
    ELSE FindName(row, col + 1, shift_col_idx)

\* PushFirstKeyword without its break: every matching keyword pushes.
RECURSIVE PushFirstKeyword_NoBreak(_, _, _, _)
PushFirstKeyword_NoBreak(shift_staff, shift_val, name, i) ==
    IF i > Len(shift_keywords) THEN shift_staff
    ELSE PushFirstKeyword_NoBreak(
             IF Contains(shift_val, shift_keywords[i])
             THEN [shift_staff EXCEPT ![i] = Append(@, name)]
             ELSE shift_staff,
             shift_val, name, i + 1)

\* for (i, keyword) in shift_keywords.iter().enumerate(): push and break.
RECURSIVE PushFirstKeyword(_, _, _, _)
PushFirstKeyword(shift_staff, shift_val, name, i) ==
    IF i > Len(shift_keywords) THEN shift_staff
    ELSE IF Contains(shift_val, shift_keywords[i])
         THEN [shift_staff EXCEPT ![i] = Append(@, name)]
    ELSE PushFirstKeyword(shift_staff, shift_val, name, i + 1)

\* The body of the row loop.
ExtractRow(shift_staff, row, shift_col_idx) ==
    IF Len(row) <= shift_col_idx THEN shift_staff
    ELSE LET shift_val == Trim(Display(row[shift_col_idx + 1]))
             name == FindName(row, 0, shift_col_idx)
         IN  IF shift_val = <<>> THEN shift_staff
             ELSE IF name = <<>> THEN shift_staff
             ELSE PushFirstKeyword(shift_staff, shift_val, name, 1)

\* Iterator::skip(n)
Skip(rows, n) == IF n >= Len(rows) THEN <<>> ELSE SubSeq(rows, n + 1, Len(rows))

RECURSIVE ExtractRows(_, _, _)
ExtractRows(shift_staff, rows, shift_col_idx) ==
    IF rows = <<>> THEN shift_staff
    ELSE ExtractRows(ExtractRow(shift_staff, Head(rows), shift_col_idx),
                     Tail(rows), shift_col_idx)

\* Extract reading from the date row on (skip(date_row_idx)).
Extract_FromDateRow(rows, date_row_idx, shift_col_idx) ==
    ExtractRows(EmptyShiftStaff, Skip(rows, date_row_idx), shift_col_idx)

\* for row in range.rows().skip(date_row_idx + 2) { .. }
Extract(rows, date_row_idx, shift_col_idx) ==
    ExtractRows(EmptyShiftStaff, Skip(rows, date_row_idx + 2), shift_col_idx)

\* [String]::join(sep)
RECURSIVE Join(_, _)
Join(names, sep) ==
    IF names = <<>> THEN <<>>
    ELSE IF Len(names) = 1 THEN names[1]
    ELSE names[1] \o sep \o Join(Tail(names), sep)

\* FillStaff assigning the joined list whether or not it is empty.
FillStaff_ClearsEmpty(names, shift_staff) ==
    [i \in 1..4 |-> Join(shift_staff[i], <<CH_TOUTEN>>)]

\* for i in 0..4: a non-empty list replaces the field.
FillStaff(names, shift_staff) ==
    [i \in 1..4 |-> IF shift_staff[i] # <<>>
                    THEN Join(shift_staff[i], <<CH_TOUTEN>>)
                    ELSE names[i]]

-----------------------------------------------------------------------------
(* load_excel as a whole.  A file is what open_workbook, sheet_names and   *)
(* worksheet_range answer for the picked path: whether it opens (and the   *)
(* error if not), how many sheets it names, and the first sheet's range    *)
(* (None when it cannot be read), a rectangular sequence of rows.          *)

OpenErrFile(e) == [open |-> FALSE, err |-> e, sheets |-> 0, range |-> None]
NoSheetFile == [open |-> TRUE, err |-> "", sheets |-> 0, range |-> None]
UnreadableFile == [open |-> TRUE, err |-> "", sheets |-> 1, range |-> None]
Workbook(rows) == [open |-> TRUE, err |-> "", sheets |-> 1, range |-> Some(rows)]

\* The status messages: the text's fixed part as `kind`, the formatted
\* arguments as `args`.
MsgEmpty == [kind |-> "", args |-> <<>>]
MsgLoaded(row, col) == [kind |-> "Loaded", args |-> <<DecDigits(row), DecDigits(col)>>]
MsgDateNotFound(month, day) ==
    [kind |-> "DateNotFound", args |-> <<DecDigits(month), DecDigits(day)>>]
MsgNoSheet == [kind |-> "NoSheet", args |-> <<>>]
MsgSheetReadFailed == [kind |-> "SheetReadFailed", args |-> <<>>]
MsgOpenFailed(e) == [kind |-> "OpenFailed", args |-> <<e>>]

\* LoadedStatus with the zero-based indices.
LoadedStatus_ZeroBased(date_row_idx, shift_col_idx) ==
    MsgLoaded(date_row_idx, shift_col_idx)

\* The success branch's message.
LoadedStatus(date_row_idx, shift_col_idx) ==
    MsgLoaded(date_row_idx + 1, shift_col_idx + 1)

\* if let Some((date_row_idx, shift_col_idx)) = found_date_pos { .. } else { .. }
AfterScan(names, rows, found_date_pos, day, month) ==
    IF found_date_pos # None
    THEN LET date_row_idx == found_date_pos[1][1]
             shift_col_idx == found_date_pos[1][2]
             shift_staff == Extract(rows, date_row_idx, shift_col_idx)
         IN  [staff_names |-> FillStaff(names, shift_staff),
              status_message |-> LoadedStatus(date_row_idx, shift_col_idx),
              found |-> found_date_pos,
              shift_staff |-> shift_staff]
    ELSE [staff_names |-> names,
          status_message |-> MsgDateNotFound(month, day),
          found |-> None,
          shift_staff |-> EmptyShiftStaff]

\* Rejected resetting the four fields.
Rejected_ClearsNames(names, msg) ==
    [staff_names |-> [i \in 1..4 |-> <<>>], status_message |-> msg,
     found |-> None, shift_staff |-> EmptyShiftStaff]

\* The branches that end before the scan.
Rejected(names, msg) ==
    [staff_names |-> names, status_message |-> msg,
     found |-> None, shift_staff |-> EmptyShiftStaff]

\* What load_excel leaves: the fields, the message, and (for the record of
\* the call) found_date_pos and shift_staff.
LoadResult(file, names, day, month) ==
    IF ~file.open THEN Rejected(names, MsgOpenFailed(file.err))
    ELSE IF file.sheets = 0 THEN Rejected(names, MsgNoSheet)
    ELSE IF file.range = None THEN Rejected(names, MsgSheetReadFailed)
    ELSE LET rows == file.range[1]
         IN  AfterScan(names, rows, FindDatePos(rows, day, month), day, month)

Flip(prev) == IF prev = None THEN 0 ELSE 1 - prev[1].parity

\* self.load_excel(path)
load_excel(file) ==
    LET r == LoadResult(file, staff_names, today.day, today.month)
    IN  /\ staff_names' = r.staff_names
        /\ status_message' = r.status_message
        /\ last' = Some([file |-> file, found |-> r.found,
                         shift_staff |-> r.shift_staff, parity |-> Flip(last)])
        /\ UNCHANGED <<today, schedule_text, hk_in, hk_out>>

-----------------------------------------------------------------------------
(* The session: ManningApp::default() and the handlers of update().        *)

Todays == {[month |-> 3, day |-> 14], [month |-> 11, day |-> 3]}

DateText(d) == DecDigits(d.month) \o <<CH_SLASH>> \o DecDigits(d.day)

Mar14 == [month |-> 3, day |-> 14]
Nov3 == [month |-> 11, day |-> 3]

\* The workbook of the end-to-end example.
EndToEndRows ==
    << <<StringCell(Str_Name), EmptyCell, EmptyCell, StringCell(Str_Date)>>,
       <<StringCell(Str_Tanaka), EmptyCell, EmptyCell,
         StringCell(DateText(Mar14) \o <<CH_SPACE>> \o Mark_Early)>> >>

\* A roster with a date row, a weekday row and three staff rows.
RosterRows ==
    << <<EmptyCell, StringCell(DateText(Mar14)), StringCell(DateText(Nov3))>>,
       <<EmptyCell, StringCell(Str_Weekday), StringCell(<<CH_NICHI>>)>>,
       <<StringCell(Str_Tanaka), StringCell(Mark_Early), StringCell(Mark_Night)>>,
       <<StringCell(Str_Sato), StringCell(Mark_Day), StringCell(Mark_Off)>>,
       <<StringCell(Str_Ito), StringCell(Mark_Early), StringCell(Mark_Day)>> >>

\* A roster whose date row holds day numbers.
DayNumberRows ==
    << <<EmptyCell, IntCell(I64(3)), IntCell(I64(14))>>,
       <<EmptyCell, StringCell(Str_Weekday), StringCell(Str_Weekday)>>,
       <<StringCell(<<CH_SPACE>> \o Str_Mori \o <<CH_FW_SPACE>>),
         StringCell(Mark_Late), StringCell(Mark_Late)>> >>

\* A sheet whose date cell is in the first column.
FirstColumnRows ==
    << <<StringCell(DateText(Mar14) \o <<CH_SPACE>> \o DateText(Nov3)), EmptyCell>>,
       <<StringCell(Str_Weekday), EmptyCell>>,
       <<StringCell(Mark_Early), StringCell(Str_Tanaka)>>,
       <<StringCell(Mark_Night), StringCell(Str_Sato)>> >>

NoDateRows == << <<StringCell(Str_Name), StringCell(Mark_Early)>> >>

Files ==
    {OpenErrFile("NotFound"), NoSheetFile, UnreadableFile}
    \cup {Workbook(rows) : rows \in {EndToEndRows, RosterRows, DayNumberRows,
                                     FirstColumnRows, NoDateRows, <<>>}}

TypedNames == {<<>>, Str_Yamada}
TypedNotes == {<<>>, Str_Note}

\* ManningApp::default()
Default ==
    /\ today \in Todays
    /\ staff_names = [i \in 1..4 |-> <<>>]
    /\ schedule_text = <<>>
    /\ status_message = MsgEmpty
    /\ last = None

Init ==
    /\ Default
    /\ hk_in = <<>>
    /\ hk_out = None

\* The load button, with the dialog answering Some(path).
ClickLoad == \E file \in Files : load_excel(file)

\* TextEdit::singleline(&mut self.staff_names[i])
EditStaff ==
    \E i \in 1..4, text \in TypedNames :
        /\ staff_names' = [staff_names EXCEPT ![i] = text]
        /\ UNCHANGED <<today, schedule_text, status_message, last, hk_in, hk_out>>

\* TextEdit::multiline(&mut self.schedule_text)
EditSchedule ==
    \E text \in TypedNotes :
        /\ schedule_text' = text
        /\ UNCHANGED <<today, staff_names, status_message, last, hk_in, hk_out>>

Next == ClickLoad \/ EditStaff \/ EditSchedule

Spec == Init /\ [][Next]_vars

-----------------------------------------------------------------------------
(* The date-cell scan on its own: one load, in a fresh session, of any     *)
(* sheet of up to MaxScanRows x MaxScanCols cells drawn from ScanCells.    *)

MaxScanRows == 2
MaxScanCols == 2

Year2024 == <<50, 48, 50, 52>>

ScanCells ==
    { EmptyCell,
      IntCell(I64(14)),
      IntCell(I64(3)),
      IntCell(<<0, 1, 0, 14>>),                   \* 2^32 + 14
      IntCell(<<2^16 - 1, 2^16 - 1, 0, 14>>),     \* 14 - 2^32
      DateTimeCell(45365, 3, 14),                 \* 2024-03-14
      StringCell(DateText(Mar14)),
      StringCell(Year2024 \o <<CH_SLASH>> \o DateText(Mar14)),
      StringCell(<<CH_FW_0 + 1, CH_FW_0 + 4>>),
      StringCell(DecDigits(11) \o <<CH_GATSU>> \o DecDigits(3) \o <<CH_NICHI>>),
      StringCell(DecDigits(11) \o <<CH_SLASH>> \o DecDigits(30)),
      StringCell(Str_Name) }

\* The rectangular ranges of at most `nrows` rows and `ncols` columns.
Ranges(cells, nrows, ncols) ==
    UNION { [1..n -> [1..w -> cells]] : n \in 0..nrows, w \in 1..ncols }

ScanFiles == { Workbook(rows) : rows \in Ranges(ScanCells, MaxScanRows, MaxScanCols) }

FirstLoadOfScan == last = None /\ \E file \in ScanFiles : load_excel(file)

NextScan == FirstLoadOfScan

SpecScan == Init /\ [][NextScan]_vars

\* The five rules as the specification words them; the second one takes the
\* cell's integer value itself.
RuleTypedDate(cell, d) == cell.kind = "DateTime" /\ cell.date = d
RulePureInteger(cell, d) == as_i64(cell) = Some(I64(d.day))
RuleNumericText(cell, d) == MatchText(to_hankaku(Display(cell)), d.day)
RuleSlashDate(cell, d) == MatchSlash(to_hankaku(Display(cell)), d.day, d.month)
RuleSubstring(cell, d) == MatchContains(to_hankaku(Display(cell)), d.day, d.month)

SatisfiesARule(cell, d) ==
    \/ RuleTypedDate(cell, d)
    \/ RulePureInteger(cell, d)
    \/ RuleNumericText(cell, d)
    \/ RuleSlashDate(cell, d)
    \/ RuleSubstring(cell, d)

\* The zero-based positions of the cells of `rows` that satisfy a rule.
RuleCells(rows, d) ==
    { pos \in (0..(Len(rows) - 1)) \X (0..(MaxScanCols + 1)) :
        /\ pos[2] < Len(rows[pos[1] + 1])
        /\ SatisfiesARule(rows[pos[1] + 1][pos[2] + 1], d) }

RowMajorFirst(cellset) ==
    CHOOSE pos \in cellset :
        \A q \in cellset : pos[1] < q[1] \/ (pos[1] = q[1] /\ pos[2] <= q[2])

LastRows == last[1].file.range[1]

\* C4: the scan returns the row-major-first cell that satisfies one of the
\* five rules, and nothing exactly when no cell satisfies any of them.
C4_FirstRuleCell ==
    (last # None /\ last[1].file.range # None) =>
        LET hits == RuleCells(LastRows, today)
        IN  IF hits = {} THEN last[1].found = None
            ELSE last[1].found = Some(RowMajorFirst(hits))

\* C8: the pure-integer rule accepts an Int cell exactly when its value is
\* today's day of month, whatever the value.
C8_IntegerRuleExact ==
    (last # None /\ last[1].file.range # None) =>
        \A r \in 1..Len(LastRows) : \A c \in 1..Len(LastRows[r]) :
            LET cell == LastRows[r][c]
            IN  cell.kind = "Int" =>
                    (MatchInt(cell, today.day) <=> cell.v = I64(today.day))

-----------------------------------------------------------------------------
(* The extraction on its own: one load, in a fresh session, of a roster    *)
(* with a title row, a date row whose date cell is at column shift_col     *)
(* (0..MaxNameCols), a weekday row, up to MaxDataRows staff rows, and one  *)
(* more column (the next day's) to the right of the date column.           *)

MaxNameCols == 2
MaxDataRows == 2

ColumnNames == <<Str_Tanaka, Str_Sato, Str_Ito, Str_Mori, Str_Yamada>>

\* What a staff row may hold in name column `col` (zero-based): column 0 is
\* blank after trimming or a padded name, the others are empty or a name.
NameCells(col) ==
    IF col = 0
    THEN { StringCell(<<CH_FW_SPACE>>),
           StringCell(<<CH_SPACE>> \o ColumnNames[1] \o <<CH_FW_SPACE>>) }
    ELSE { EmptyCell, StringCell(ColumnNames[col + 1]) }

MarkerCells ==
    { EmptyCell,
      StringCell(<<CH_FW_SPACE>>),
      StringCell(<<CH_SPACE>> \o Mark_Early),
      StringCell(Mark_Day),
      StringCell(Mark_Late),
      StringCell(Mark_Night),
      StringCell(<<CH_YORU, CH_OSO>>),
      StringCell(Mark_Off) }

NextDayCell == StringCell(Mark_Night)

\* The name cells of a staff row, columns 0 .. n-1.
RECURSIVE NamePrefixes(_)
NamePrefixes(n) ==
    IF n = 0 THEN {<<>>}
    ELSE { Append(names, cell) : names \in NamePrefixes(n - 1), cell \in NameCells(n - 1) }

\* A staff row with every name column filled.
FullNames(shift_col) ==
    [c \in 1..shift_col |->
        IF c = 1 THEN StringCell(<<CH_SPACE>> \o ColumnNames[1] \o <<CH_FW_SPACE>>)
        ELSE StringCell(ColumnNames[c])]

\* The staff rows: every filling of the name columns beside a day-shift
\* marker, and every marker beside a full row of names.
StaffRows(shift_col) ==
    { names \o <<StringCell(Mark_Day), NextDayCell>> : names \in NamePrefixes(shift_col) }
    \cup { FullNames(shift_col) \o <<marker, NextDayCell>> : marker \in MarkerCells }

Blank(n) == [c \in 1..n |-> EmptyCell]

TitleRow(shift_col) == <<StringCell(Str_Name)>> \o Blank(shift_col + 1)

DateRow(shift_col, d) ==
    Blank(shift_col) \o <<StringCell(DateText(d)), StringCell(Mark_Off)>>

\* The weekday row reads like a staff row: a label on the left and, under
\* the date, the weekday 日.
WeekdayRow(shift_col) ==
    [c \in 1..shift_col |-> StringCell(Str_Name)]
        \o <<StringCell(<<CH_NICHI>>), StringCell(Str_Weekday)>>

RostersAt(shift_col, d) ==
    { Workbook(<<TitleRow(shift_col), DateRow(shift_col, d), WeekdayRow(shift_col)>>
               \o staff) :
        staff \in UNION { [1..n -> StaffRows(shift_col)] : n \in 0..MaxDataRows } }

RosterFiles(d) == UNION { RostersAt(shift_col, d) : shift_col \in 0..MaxNameCols }

FirstLoadOfRoster == last = None /\ \E file \in RosterFiles(today) : load_excel(file)

NextRoster == FirstLoadOfRoster

SpecRoster == Init /\ [][NextRoster]_vars

-----------------------------------------------------------------------------
(* A date cell in the first column: one load, after the user typed (or     *)
(* not) into the four fields, of a two-column sheet whose date cell is at  *)
(* column 0 and whose rows below hold any of FirstColumnCells.             *)

MaxRowsBelow == 3

FirstColumnCells ==
    { EmptyCell, StringCell(<<CH_SPACE>> \o Mark_Early), StringCell(Str_Tanaka) }

FirstColumnFiles(d) ==
    { Workbook(<< <<StringCell(DateText(d)), StringCell(Str_Name)>> >> \o below) :
        below \in UNION { [1..n -> [1..2 -> FirstColumnCells]] : n \in 0..MaxRowsBelow } }

TypedRosters == { [i \in 1..4 |-> <<>>], [i \in 1..4 |-> ColumnNames[i]] }

InitFirstColumn ==
    /\ today \in Todays
    /\ staff_names \in TypedRosters
    /\ schedule_text = <<>>
    /\ status_message = MsgEmpty
    /\ last = None
    /\ hk_in = <<>>
    /\ hk_out = None

FirstLoadOfFirstColumn ==
    last = None /\ \E file \in FirstColumnFiles(today) : load_excel(file)

NextFirstColumn == FirstLoadOfFirstColumn

SpecFirstColumn == InitFirstColumn /\ [][NextFirstColumn]_vars

-----------------------------------------------------------------------------
(* to_hankaku on its own: every text of up to MaxTextLen characters drawn  *)
(* from HankakuChars (the ends of the three fullwidth ranges, their        *)
(* neighbours just outside, the fullwidth space, and untouched characters).*)

MaxTextLen == 2

HankakuChars ==
    { CH_FW_0, CH_FW_9, CH_FW_UA, CH_FW_UZ, CH_FW_LA, CH_FW_LZ, CH_FW_SPACE,
      CH_FW_0 - 1, CH_FW_9 + 1, CH_FW_UA - 1, CH_FW_UZ + 1, CH_FW_LA - 1,
      CH_FW_LZ + 1, CH_0 + 1, CH_UA, CH_GATSU }

Texts == UNION { [1..n -> HankakuChars] : n \in 0..MaxTextLen }

InitHankaku ==
    /\ Default
    /\ hk_in \in Texts
    /\ hk_out = None

CallHankaku ==
    /\ hk_out = None
    /\ hk_out' = Some(to_hankaku(hk_in))
    /\ UNCHANGED <<today, staff_names, schedule_text, status_message, last, hk_in>>

NextHankaku == CallHankaku

SpecHankaku == InitHankaku /\ [][NextHankaku]_vars

-----------------------------------------------------------------------------
(* Properties of the extraction (SpecRoster).                              *)

Loaded == last # None /\ last[1].found # None
DateRowIdx == last[1].found[1][1]
ShiftColIdx == last[1].found[1][2]

\* The categories (1 early, 2 day, 3 late, 4 night) whose keyword is a
\* substring of the marker.
KeywordsIn(marker) == {i \in 1..4 : Contains(marker, shift_keywords[i])}

\* The trimmed text of the row's cell at the shift-marker column.
MarkerOf(row, shift_col) ==
    IF Len(row) > shift_col THEN Trim(Display(row[shift_col + 1])) ELSE <<>>

\* The trimmed text of the leftmost cell, strictly left of the shift-marker
\* column, that is not blank; "" when there is none.
LeftmostName(row, shift_col) ==
    LET named == {c \in 1..shift_col : c <= Len(row) /\ Trim(Display(row[c])) # <<>>}
    IN  IF named = {} THEN <<>>
        ELSE Trim(Display(row[CHOOSE c \in named : \A e \in named : c <= e]))

\* shift_staff after the scanned rows up to row k (one-based) of the sheet.
StaffUpTo(k) ==
    ExtractRows(EmptyShiftStaff, SubSeq(LastRows, DateRowIdx + 3, k), ShiftColIdx)

\* C5: each scanned row adds a name to at most one category list, the first
\* in the order early, day, late, night whose keyword its marker contains,
\* and to none when the marker contains no keyword.
C5_OneCategoryPerRow ==
    Loaded =>
        /\ \A k \in (DateRowIdx + 3)..Len(LastRows) :
              LET before == StaffUpTo(k - 1)
                  after == StaffUpTo(k)
                  grown == {i \in 1..4 : after[i] # before[i]}
                  kws == KeywordsIn(MarkerOf(LastRows[k], ShiftColIdx))
              IN  /\ Cardinality(grown) <= 1
                  /\ \A i \in grown :
                        /\ i \in kws
                        /\ \A j \in kws : i <= j
                        /\ after[i] = Append(before[i], LeftmostName(LastRows[k], ShiftColIdx))
                  /\ kws = {} => grown = {}
        /\ last[1].shift_staff = StaffUpTo(Len(LastRows))

\* C5 witness: a row whose marker holds the night keyword before the late
\* one was scanned, and its name went to the late list only.
C5_Witness ==
    /\ Loaded
    /\ \E k \in (DateRowIdx + 3)..Len(LastRows) :
          MarkerOf(LastRows[k], ShiftColIdx) = <<CH_YORU, CH_OSO>>
    /\ last[1].shift_staff[3] = <<Str_Tanaka>>
    /\ last[1].shift_staff[4] = <<>>

\* The names category i is due from row k (one-based) on: of each row with
\* a non-blank marker whose first keyword is i's, the leftmost name, if any.
RECURSIVE NamesDue(_, _, _, _)
NamesDue(rows, k, shift_col, i) ==
    IF k > Len(rows) THEN <<>>
    ELSE LET marker == MarkerOf(rows[k], shift_col)
             name == LeftmostName(rows[k], shift_col)
             kws == KeywordsIn(marker)
             due == /\ Len(rows[k]) > shift_col
                    /\ marker # <<>>
                    /\ name # <<>>
                    /\ i \in kws
                    /\ \A j \in kws : i <= j
         IN  (IF due THEN <<name>> ELSE <<>>) \o NamesDue(rows, k + 1, shift_col, i)

\* C7: the collected names are, in row order, the leftmost non-blank
\* trimmed texts left of the shift-marker column of the rows at index
\* dateRow + 2 or more that have a non-blank marker; no other row, and no
\* row without such a text, contributes.
C7_NamesFromRowsBelow ==
    Loaded =>
        \A i \in 1..4 :
            last[1].shift_staff[i] = NamesDue(LastRows, DateRowIdx + 3, ShiftColIdx, i)

\* C7 witness: with two name columns, a row gave its padded first-column
\* name, trimmed, and the next row, blank in the first column, its second.
C7_Witness ==
    /\ Loaded
    /\ ShiftColIdx = 2
    /\ last[1].shift_staff[2] = <<Str_Tanaka, Str_Sato>>

-----------------------------------------------------------------------------
(* Properties of a load whose date cell is in column 0 (SpecFirstColumn).  *)

\* A step that ran load_excel: every call flips the record's parity.
LoadStep == last' # last

\* C10: when the date cell is found in column 0 no name is collected, the
\* load reports success and the four fields stay as they were.
C10_FirstColumnKeepsFields ==
    [][(LoadStep /\ last'[1].found # None /\ last'[1].found[1][2] = 0) =>
          /\ last'[1].shift_staff = EmptyShiftStaff
          /\ status_message'.kind = "Loaded"
          /\ staff_names' = staff_names]_vars

\* C10 witness: typed fields survived a load that found the date in column
\* 0 above a row holding an early-shift marker and a name.
C10_Witness ==
    /\ Loaded
    /\ ShiftColIdx = 0
    /\ Len(LastRows) >= 3
    /\ LastRows[3] = <<StringCell(<<CH_SPACE>> \o Mark_Early), StringCell(Str_Tanaka)>>
    /\ status_message.kind = "Loaded"
    /\ staff_names = [i \in 1..4 |-> ColumnNames[i]]

-----------------------------------------------------------------------------
(* Properties of to_hankaku (SpecHankaku).                                 *)

\* The standard-width counterpart of a fullwidth digit or letter is 65248
\* (FEE0 hex) below it.
Counterpart(c) ==
    IF \/ c \in 65296..65305
       \/ c \in 65313..65338
       \/ c \in 65345..65370
    THEN c - 65248
    ELSE IF c = 12288 THEN 32
    ELSE c

\* C6: to_hankaku maps each fullwidth digit, letter and space to its
\* standard-width counterpart at the same position, leaves every other
\* character as it is, and keeps the number of characters.
C6_HankakuMapsInPlace ==
    hk_out # None =>
        /\ Len(hk_out[1]) = Len(hk_in)
        /\ \A i \in 1..Len(hk_in) : hk_out[1][i] = Counterpart(hk_in[i])

\* C6 witness: the last fullwidth digit was mapped and a kanji kept.
C6_Witness ==
    /\ hk_in = <<CH_FW_9, CH_GATSU>>
    /\ hk_out = Some(<<CH_0 + 9, CH_GATSU>>)

-----------------------------------------------------------------------------
(* Properties of the session (Spec).                                       *)

\* The load failed: the file did not open, named no sheet, its first sheet
\* could not be read, or no date cell was found.
FailedLoad(rec) ==
    \/ ~rec.file.open
    \/ rec.file.sheets = 0
    \/ rec.file.range = None
    \/ rec.found = None

\* C1: a load that fails leaves the four staff-name fields and the schedule
\* note as they were.
C1_FailedLoadKeepsRoster ==
    [][(LoadStep /\ FailedLoad(last'[1])) =>
          /\ staff_names' = staff_names
          /\ schedule_text' = schedule_text]_vars

\* C1 witness: no date cell was found, and the fields set by an earlier
\* load and by typing, and the note, are there.
C1_Witness ==
    /\ last # None
    /\ last[1].file = Workbook(NoDateRows)
    /\ status_message = MsgDateNotFound(3, 14)
    /\ staff_names[1] = Str_Tanaka \o <<CH_TOUTEN>> \o Str_Ito
    /\ staff_names[3] = Str_Yamada
    /\ schedule_text = Str_Note

\* C2: a load that finds the date cell leaves each field whose category
\* collected no name as it was, and sets each other field to the collected
\* names separated by the full-width comma.
C2_EmptyCategoryKept ==
    [][(LoadStep /\ last'[1].found # None) =>
          \A i \in 1..4 :
              IF last'[1].shift_staff[i] = <<>>
              THEN staff_names'[i] = staff_names[i]
              ELSE Split(staff_names'[i], CH_TOUTEN) = last'[1].shift_staff[i]]_vars

\* C2 witness: the day-number roster filled the late field only; the early
\* field was typed, the day and night fields came from an earlier load.
C2_Witness ==
    /\ today = Nov3
    /\ last # None
    /\ last[1].file = Workbook(DayNumberRows)
    /\ last[1].shift_staff = <<(<<>>), (<<>>), (<<Str_Mori>>), (<<>>)>>
    /\ staff_names = <<Str_Yamada, Str_Ito, Str_Mori, Str_Tanaka>>

EndToEndLoad == LoadStep /\ today = Mar14 /\ last'[1].file = Workbook(EndToEndRows)

\* C3 as stated: the end-to-end workbook on March 14 reports success at
\* row 2, column 4, sets the early field to "Tanaka" and leaves the others.
C3_EndToEndSetsEarly ==
    [][EndToEndLoad =>
          /\ status_message' = MsgLoaded(2, 4)
          /\ staff_names'[1] = Str_Tanaka
          /\ \A i \in 2..4 : staff_names'[i] = staff_names[i]]_vars

\* C3 amended: the end-to-end workbook on March 14 reports success at row 2,
\* column 4 and leaves all four fields as they were (the row that names
\* Tanaka is the date row, and the rows read start two below it).
C3_EndToEndKeepsAll ==
    [][EndToEndLoad =>
          /\ status_message' = MsgLoaded(2, 4)
          /\ staff_names' = staff_names]_vars

\* C3 witness: the end-to-end workbook was loaded on March 14 over typed
\* fields.
C3_Witness ==
    /\ today = Mar14
    /\ last # None
    /\ last[1].file = Workbook(EndToEndRows)
    /\ last[1].found = Some(<<1, 3>>)
    /\ status_message = MsgLoaded(2, 4)
    /\ staff_names = <<(<<>>), Str_Yamada, (<<>>), (<<>>)>>

\* The message due for a load.
StatusDue(rec, d) ==
    IF rec.found # None
    THEN [kind |-> "Loaded",
          args |-> <<DecDigits(rec.found[1][1] + 1), DecDigits(rec.found[1][2] + 1)>>]
    ELSE IF ~rec.file.open THEN [kind |-> "OpenFailed", args |-> <<rec.file.err>>]
    ELSE IF rec.file.sheets = 0 THEN [kind |-> "NoSheet", args |-> <<>>]
    ELSE IF rec.file.range = None THEN [kind |-> "SheetReadFailed", args |-> <<>>]
    ELSE [kind |-> "DateNotFound", args |-> <<DecDigits(d.month), DecDigits(d.day)>>]

\* C9: the status message is that of the most recent load (success with
\* the date cell's row + 1 and column + 1, or the failure's message); it is
\* empty only before the first load, and edits do not change it.
C9_StatusOfLastLoad ==
    /\ status_message = (IF last = None THEN MsgEmpty ELSE StatusDue(last[1], today))
    /\ (status_message.kind = "" => last = None)

\* C9 witness: a load found the date at row index 0, column index 2, the
\* fields and the note were edited afterwards, and the message stands.
C9_Witness ==
    /\ last # None
    /\ last[1].file = Workbook(RosterRows)
    /\ last[1].found = Some(<<0, 2>>)
    /\ status_message = [kind |-> "Loaded", args |-> <<(<<CH_0 + 1>>), (<<CH_0 + 3>>)>>]
    /\ staff_names[4] = Str_Yamada
    /\ schedule_text = Str_Note

=============================================================================
